---- MODULE Spec2Model ----
(***************************************************************************)
(* DrCovRuntime (libafl_frida/src/drcov_rt.rs): the per-execution DrCov    *)
(* trace recorder.  Two runtime instances, a small filesystem (directories *)
(* and trace files) and the driver's lifecycle positions are modelled.     *)
(* post_exec is split at its filesystem calls (one step per                *)
(* `filename.exists()` check, one step for the write), which is where      *)
(* another writer can interleave.                                          *)
(***************************************************************************)
EXTENDS Integers, Sequences, FiniteSets, TLC

VARIABLES
    coverage_directory,   \* [Instances -> path]        field coverage_directory
    ranges,               \* [Instances -> registry]    field ranges
    drcov_basic_blocks,   \* [Instances -> Seq(block)]  field drcov_basic_blocks
    stalked_addresses,    \* [Instances -> map]         field stalked_addresses
    pc,                   \* [Instances -> position of the driver / of post_exec]
    local,                \* [Instances -> locals of the running post_exec]
    result,               \* [Instances -> what the last post_exec returned]
    calls,                \* calls made on the runtimes so far
    dirs,                 \* filesystem: the directories that exist
    files,                \* filesystem: path -> content of each trace file
    fs_writes,            \* filesystem: number of files created or truncated so far
    log,                  \* history: the successful trace writes, in order
    failed,               \* history: the instances a post_exec of which returned Err
    lastAdd,              \* history: per instance, key -> real of the latest add
    replaced,             \* history: the <<instance, key>> whose mapping was replaced
    lastInitRanges,       \* history: per instance, the ranges of the latest init
    lastInitPath,         \* history: the directory of the latest successful init
    mkdirFailed,          \* history: per instance, create_dir_all returned Err
    appended,             \* history: per instance, the blocks appended since
                          \*          its previous post_exec returned
    lastInitBlocks        \* history: per instance, the buffer as the latest init found it

vars == <<coverage_directory, ranges, drcov_basic_blocks, stalked_addresses, pc,
          local, result, calls, dirs, files, fs_writes, log,
          failed, lastAdd, replaced, lastInitRanges, lastInitPath, mkdirFailed,
          appended, lastInitBlocks>>

----------------------------------------------------------------------------
(* Bounds and universes *)

\* calls made on the runtimes in one run: init, add_stalked_address, block
\* events and post_exec (pre_exec alternates with post_exec and is not counted)
MaxCalls == 4
\* size of the fingerprint space (2^64 in the program)
HashSpace == 16
\* `{hash:016x}`: minimum width of the fingerprint in a file name
HexWidth == 16

Instances == {1, 2}
\* usize addresses handed to the translator and recorded as blocks
Addrs == {1, 2}
\* target bytes of the inputs; <<1>> and <<0, 1>> have the same fingerprint
Inputs == {<<1>>, <<0, 1>>, <<1, 0>>}
\* module registries handed to init: (start, end, id, path)
RangesA == {<<0, 2, 0, "target">>}
RangesB == {<<0, 2, 0, "target">>, <<2, 4, 1, "libc">>}
Registries == {RangesA, RangesB}

\* PathBuf::from("./coverage")
DefaultDirectory == <<".", "coverage">>
\* the paths handed to with_path
OtherDirectory == <<".", "out", "cov">>
Paths == {DefaultDirectory, OtherDirectory}

NoLocal == [input |-> <<>>, hash |-> 0, filename |-> <<>>, i |-> 0]
EmptyMap == [a \in {} |-> 0]

----------------------------------------------------------------------------
(* Pure helpers *)

\* Vec / HashMap / RangeMap of a freshly constructed runtime
DefaultRuntime ==
    [drcov_basic_blocks |-> <<>>, ranges |-> {}, stalked_addresses |-> EmptyMap,
     coverage_directory |-> DefaultDirectory]

\* with_path: the default runtime with the given directory
with_path(path) == [DefaultRuntime EXCEPT !.coverage_directory = path]

RECURSIVE HashFold(_, _)
HashFold(bytes, h) ==
    IF bytes = <<>> THEN h
    ELSE HashFold(Tail(bytes), (h * 3 + Head(bytes)) % HashSpace)

\* the fixed-seed hasher fed the target bytes: deterministic, order-sensitive,
\* and (like any 64-bit hash) not injective
Hash(bytes) == HashFold(bytes, 0)

HexDigit(d) ==
    CASE d = 0 -> "0" [] d = 1 -> "1" [] d = 2 -> "2" [] d = 3 -> "3"
      [] d = 4 -> "4" [] d = 5 -> "5" [] d = 6 -> "6" [] d = 7 -> "7"
      [] d = 8 -> "8" [] d = 9 -> "9" [] d = 10 -> "a" [] d = 11 -> "b"
      [] d = 12 -> "c" [] d = 13 -> "d" [] d = 14 -> "e" [] OTHER -> "f"

\* format!("{n:0wx}"): lowercase hex, zero-padded to at least w digits
RECURSIVE HexPad(_, _)
HexPad(n, w) ==
    IF n < 16 /\ w <= 1 THEN HexDigit(n)
    ELSE HexPad(n \div 16, w - 1) \o HexDigit(n % 16)

\* format!("{hash:016x}.drcov")
BaseName(hash) == HexPad(hash, HexWidth) \o ".drcov"

\* format!("{hash:016x}_{i}.drcov")
SuffixName(hash, i) == HexPad(hash, HexWidth) \o "_" \o ToString(i) \o ".drcov"

\* PathBuf::join with a relative file name
Join(dir, name) == Append(dir, name)

\* PathBuf::set_file_name: replaces the last component
SetFileName(path, name) == Append(SubSeq(path, 1, Len(path) - 1), name)

Parent(path) == SubSeq(path, 1, Len(path) - 1)

\* Path::exists of a probe that never sees a file
Exists_Never(path) == FALSE

\* the test negated (`while !filename.exists()`)
Exists_Inverted(path) == ~(path \in DOMAIN files \/ path \in dirs)

\* Path::exists
Exists(path) == path \in DOMAIN files \/ path \in dirs

\* the non-empty prefixes of a path that are not directories yet, shortest first
MissingPrefixes(ds, path) ==
    {k \in 1..Len(path) : SubSeq(path, 1, k) \notin ds}

\* std::fs::create_dir_all when the filesystem lets `budget` mkdir calls succeed:
\* an existing directory is Ok; otherwise the missing ancestors are created in
\* order and the call fails at the first mkdir that is refused
create_dir_all(ds, path, budget) ==
    LET missing == MissingPrefixes(ds, path)
        made == {k \in missing : Cardinality({m \in missing : m <= k}) <= budget}
    IN [dirs |-> ds \cup {SubSeq(path, 1, k) : k \in made},
        ok |-> made = missing]

\* a lookup falling back to the default address instead of its argument
MapLookup_MissDefault(map, stalked) ==
    IF stalked \in DOMAIN map THEN map[stalked] ELSE 0

\* HashMap::get(..).map_or(stalked, |addr| *addr)
MapLookup(map, stalked) ==
    IF stalked \in DOMAIN map THEN map[stalked] ELSE stalked

real_address_for_stalked(self, stalked) ==
    MapLookup(stalked_addresses[self], stalked)

\* entry(stalked).or_insert(real): the first mapping of a key is kept
MapInsert_KeepFirst(map, stalked, real) ==
    [a \in DOMAIN map \cup {stalked} |-> IF a \in DOMAIN map THEN map[a] ELSE real]

\* HashMap::insert: insert or overwrite
MapInsert(map, stalked, real) ==
    [a \in DOMAIN map \cup {stalked} |-> IF a = stalked THEN real ELSE map[a]]

\* DrCovBasicBlock of the engine's block event
Block(address) == [address |-> address, size |-> 4]

\* what DrCovWriter::new(&ranges).write(filename, &blocks) puts into the file:
\* the module table, then the block list
TraceFile(rs, blocks) == [modules |-> rs, blocks |-> blocks]

\* DrCovWriter::write on the filesystem: File::create needs the parent directory
\* and creates or truncates the file; `ok` is whether the storage accepts the write
DrCovWriter_write(fs, ds, filename, rs, blocks, ok) ==
    IF ok /\ Parent(filename) \in ds
    THEN [files |-> [p \in DOMAIN fs \cup {filename} |->
                        IF p = filename THEN TraceFile(rs, blocks) ELSE fs[p]],
          ok |-> TRUE]
    ELSE [files |-> fs, ok |-> FALSE]

InFlight == {j \in Instances : pc[j] \in {"probe", "write"}}

----------------------------------------------------------------------------
(* Initial state: two runtimes built by new() / with_path(p), nothing on disk *)

Init ==
    /\ \E path \in Paths :
          coverage_directory = (1 :> DefaultRuntime.coverage_directory)
                                  @@ (2 :> with_path(path).coverage_directory)
    /\ ranges = [i \in Instances |-> DefaultRuntime.ranges]
    /\ drcov_basic_blocks = [i \in Instances |-> DefaultRuntime.drcov_basic_blocks]
    /\ stalked_addresses = [i \in Instances |-> DefaultRuntime.stalked_addresses]
    /\ pc = [i \in Instances |-> "new"]
    /\ local = [i \in Instances |-> NoLocal]
    /\ result = [i \in Instances |-> "None"]
    /\ dirs = {<<".">>}
    /\ files = [p \in {} |-> 0]
    /\ fs_writes = 0
    /\ calls = 0
    /\ log = <<>>
    /\ failed = {}
    /\ lastAdd = [i \in Instances |-> EmptyMap]
    /\ replaced = {}
    /\ lastInitRanges = [i \in Instances |-> {}]
    /\ lastInitPath = <<>>
    /\ mkdirFailed = [i \in Instances |-> FALSE]
    /\ appended = [i \in Instances |-> <<>>]
    /\ lastInitBlocks = [i \in Instances |-> <<>>]

----------------------------------------------------------------------------
(* Operations *)

\* the position of the driver after init returns normally
AfterInit(self) == IF pc[self] = "new" THEN "ready" ELSE pc[self]

\* init discarding the result of create_dir_all
InitEffect_IgnoreError(self, rs, made) ==
    /\ ranges' = [ranges EXCEPT ![self] = rs]
    /\ dirs' = made.dirs
    /\ pc' = [pc EXCEPT ![self] = AfterInit(self)]

\* init adding the ranges to the registry it already has (extend, not replace)
InitEffect_MergeRanges(self, rs, made) ==
    /\ ranges' = [ranges EXCEPT ![self] = @ \cup rs]
    /\ dirs' = made.dirs
    /\ pc' = [pc EXCEPT ![self] = IF made.ok THEN AfterInit(self) ELSE "panicked"]

\* init: clone the ranges, create the directory, panic (expect) when that fails
InitEffect(self, rs, made) ==
    /\ ranges' = [ranges EXCEPT ![self] = rs]
    /\ dirs' = made.dirs
    /\ pc' = [pc EXCEPT ![self] = IF made.ok THEN AfterInit(self) ELSE "panicked"]

\* an init that rebuilds the runtime, translator map included
init_ResetsMap(self, rs, budget) ==
    /\ pc[self] \in {"new", "ready", "exec"}
    /\ calls < MaxCalls
    /\ calls' = calls + 1
    /\ LET made == create_dir_all(dirs, coverage_directory[self], budget)
       IN /\ InitEffect(self, rs, made)
          /\ mkdirFailed' = [mkdirFailed EXCEPT ![self] = ~made.ok]
          /\ lastInitPath' = IF made.ok THEN coverage_directory[self]
                                        ELSE lastInitPath
    /\ lastInitRanges' = [lastInitRanges EXCEPT ![self] = rs]
    /\ lastInitBlocks' = [lastInitBlocks EXCEPT ![self] = drcov_basic_blocks[self]]
    /\ stalked_addresses' = [stalked_addresses EXCEPT ![self] = EmptyMap]
    /\ UNCHANGED <<coverage_directory, drcov_basic_blocks, local,
                   result, files, fs_writes, log, failed,
                   lastAdd, replaced, appended>>

\* an init that starts over with an empty trace buffer
init_ClearsBuffer(self, rs, budget) ==
    /\ pc[self] \in {"new", "ready", "exec"}
    /\ calls < MaxCalls
    /\ calls' = calls + 1
    /\ LET made == create_dir_all(dirs, coverage_directory[self], budget)
       IN /\ InitEffect(self, rs, made)
          /\ mkdirFailed' = [mkdirFailed EXCEPT ![self] = ~made.ok]
          /\ lastInitPath' = IF made.ok THEN coverage_directory[self]
                                        ELSE lastInitPath
    /\ lastInitRanges' = [lastInitRanges EXCEPT ![self] = rs]
    /\ lastInitBlocks' = [lastInitBlocks EXCEPT ![self] = drcov_basic_blocks[self]]
    /\ drcov_basic_blocks' = [drcov_basic_blocks EXCEPT ![self] = <<>>]
    /\ UNCHANGED <<coverage_directory, stalked_addresses, local,
                   result, files, fs_writes, log, failed,
                   lastAdd, replaced, appended>>

\* lines 34-43, with what the history variables record of the call
init(self, rs, budget) ==
    /\ pc[self] \in {"new", "ready", "exec"}
    /\ calls < MaxCalls
    /\ calls' = calls + 1
    /\ LET made == create_dir_all(dirs, coverage_directory[self], budget)
       IN /\ InitEffect(self, rs, made)
          /\ mkdirFailed' = [mkdirFailed EXCEPT ![self] = ~made.ok]
          /\ lastInitPath' = IF made.ok THEN coverage_directory[self]
                                        ELSE lastInitPath
    /\ lastInitRanges' = [lastInitRanges EXCEPT ![self] = rs]
    /\ lastInitBlocks' = [lastInitBlocks EXCEPT ![self] = drcov_basic_blocks[self]]
    /\ UNCHANGED <<coverage_directory, drcov_basic_blocks, stalked_addresses, local,
                   result, files, fs_writes, log, failed,
                   lastAdd, replaced, appended>>

\* a pre_exec that resets the trace buffer for the new execution
pre_exec_ClearsBuffer(self, input) ==
    /\ pc[self] = "ready"
    /\ pc' = [pc EXCEPT ![self] = "exec"]
    /\ result' = [result EXCEPT ![self] = "None"]
    /\ drcov_basic_blocks' = [drcov_basic_blocks EXCEPT ![self] = <<>>]
    /\ UNCHANGED <<coverage_directory, ranges, stalked_addresses,
                   local, calls, dirs, files, fs_writes, log,
                   failed, lastAdd, replaced, lastInitRanges, lastInitPath,
                   mkdirFailed,
                   appended, lastInitBlocks>>

\* pre_exec: Ok(()); the driver moves into the execution
pre_exec(self, input) ==
    /\ pc[self] = "ready"
    /\ pc' = [pc EXCEPT ![self] = "exec"]
    /\ result' = [result EXCEPT ![self] = "None"]
    /\ UNCHANGED <<coverage_directory, ranges, drcov_basic_blocks, stalked_addresses,
                   local, calls, dirs, files, fs_writes, log,
                   failed, lastAdd, replaced, lastInitRanges, lastInitPath,
                   mkdirFailed,
                   appended, lastInitBlocks>>

add_stalked_address(self, stalked, real) ==
    /\ pc[self] \in {"ready", "exec"}
    /\ calls < MaxCalls
    /\ calls' = calls + 1
    /\ stalked_addresses' =
          [stalked_addresses EXCEPT ![self] = MapInsert(@, stalked, real)]
    /\ lastAdd' = [lastAdd EXCEPT ![self] =
          [a \in DOMAIN @ \cup {stalked} |-> IF a = stalked THEN real ELSE @[a]]]
    /\ replaced' =
          IF stalked \in DOMAIN lastAdd[self] /\ lastAdd[self][stalked] # real
          THEN replaced \cup {<<self, stalked>>} ELSE replaced
    /\ UNCHANGED <<coverage_directory, ranges, drcov_basic_blocks, pc, local, result,
                   dirs, files, fs_writes, log, failed,
                   lastInitRanges, lastInitPath, mkdirFailed,
                   appended, lastInitBlocks>>

\* the engine appends the block it discovered, translated back
RecordBlock(self, address) ==
    /\ pc[self] = "exec"
    /\ calls < MaxCalls
    /\ calls' = calls + 1
    /\ drcov_basic_blocks' = [drcov_basic_blocks EXCEPT ![self] =
          Append(@, Block(real_address_for_stalked(self, address)))]
    /\ appended' = [appended EXCEPT ![self] =
          Append(@, Block(real_address_for_stalked(self, address)))]
    /\ UNCHANGED <<coverage_directory, ranges, stalked_addresses, pc, local, result,
                   dirs, files, fs_writes, log, failed, lastAdd,
                   replaced, lastInitRanges, lastInitPath, mkdirFailed,
                   lastInitBlocks>>

\* a first candidate inside the most recently initialised directory
FirstCandidate_LastInit(self, input) ==
    [input |-> input,
     hash |-> Hash(input),
     filename |-> Join(lastInitPath, BaseName(Hash(input))),
     i |-> 0]

\* post_exec, lines 53-58: fingerprint, first candidate, i = 0
FirstCandidate(self, input) ==
    [input |-> input,
     hash |-> Hash(input),
     filename |-> Join(coverage_directory[self], BaseName(Hash(input))),
     i |-> 0]

PostExecBegin(self, input) ==
    /\ pc[self] = "exec"
    /\ calls < MaxCalls
    /\ calls' = calls + 1
    /\ local' = [local EXCEPT ![self] = FirstCandidate(self, input)]
    /\ pc' = [pc EXCEPT ![self] = "probe"]
    /\ UNCHANGED <<coverage_directory, ranges, drcov_basic_blocks, stalked_addresses,
                   result, dirs, files, fs_writes, log, failed,
                   lastAdd, replaced, lastInitRanges, lastInitPath, mkdirFailed,
                   appended, lastInitBlocks>>

\* a loop body that increments i before it formats the name
NextCandidate_OffByOne(l) ==
    [l EXCEPT !.filename = SetFileName(l.filename, SuffixName(l.hash, l.i + 1)),
              !.i = l.i + 1]

\* the body of `while filename.exists()`
NextCandidate(l) ==
    [l EXCEPT !.filename = SetFileName(l.filename, SuffixName(l.hash, l.i)),
              !.i = l.i + 1]

\* a probe that tests the name once (`if` for `while`): after one rename the
\* name is taken as it is
PostExecProbe_IfNotWhile(self) ==
    /\ pc[self] = "probe"
    /\ IF Exists(local[self].filename)
       THEN /\ local' = [local EXCEPT ![self] = NextCandidate(local[self])]
            /\ pc' = [pc EXCEPT ![self] = "write"]
       ELSE /\ pc' = [pc EXCEPT ![self] = "write"]
            /\ UNCHANGED local
    /\ UNCHANGED <<coverage_directory, ranges, drcov_basic_blocks, stalked_addresses,
                   result, calls, dirs, files, fs_writes, log, failed, lastAdd,
                   replaced, lastInitRanges, lastInitPath, mkdirFailed,
                   appended, lastInitBlocks>>

\* one evaluation of the loop condition, lines 59-62
PostExecProbe(self) ==
    /\ pc[self] = "probe"
    /\ IF Exists(local[self].filename)
       THEN /\ local' = [local EXCEPT ![self] = NextCandidate(@)]
            /\ pc' = pc
       ELSE /\ pc' = [pc EXCEPT ![self] = "write"]
            /\ local' = local
    /\ UNCHANGED <<coverage_directory, ranges, drcov_basic_blocks, stalked_addresses,
                   result, calls, dirs, files, fs_writes, log,
                   failed, lastAdd, replaced, lastInitRanges, lastInitPath,
                   mkdirFailed,
                   appended, lastInitBlocks>>

\* a post_exec that drops the writer's error (`let _ = ...write(..)`)
PostExecReturn_Swallow(self, out) ==
    /\ result' = [result EXCEPT ![self] = "Ok"]
    /\ drcov_basic_blocks' = [drcov_basic_blocks EXCEPT ![self] = <<>>]
    /\ pc' = [pc EXCEPT ![self] = "ready"]
    /\ local' = [local EXCEPT ![self] = NoLocal]

\* lines 63-66 once the write returned `out`: `?` returns the error at once,
\* otherwise the buffer is cleared and Ok(()) returned
PostExecReturn(self, out) ==
    /\ result' = [result EXCEPT ![self] = IF out.ok THEN "Ok" ELSE "Err"]
    /\ drcov_basic_blocks' = [drcov_basic_blocks EXCEPT ![self] =
          IF out.ok THEN <<>> ELSE @]
    /\ pc' = [pc EXCEPT ![self] = "ready"]
    /\ local' = [local EXCEPT ![self] = NoLocal]

\* a post_exec that returns early, without writing, when no block was recorded
WriteTrace_SkipEmpty(self, ok) ==
    IF drcov_basic_blocks[self] = <<>>
    THEN [files |-> files, ok |-> TRUE]
    ELSE DrCovWriter_write(files, dirs, local[self].filename, ranges[self],
                           drcov_basic_blocks[self], ok)

\* a post_exec that writes the trace under the selected name and the next one
WriteTrace_Twice(self, ok) ==
    LET first == DrCovWriter_write(files, dirs, local[self].filename, ranges[self],
                                   drcov_basic_blocks[self], ok)
    IN DrCovWriter_write(first.files, dirs, NextCandidate(local[self]).filename,
                         ranges[self], drcov_basic_blocks[self], ok)

\* line 63: DrCovWriter::new(&self.ranges).write(filename, &self.drcov_basic_blocks)
WriteTrace(self, ok) ==
    DrCovWriter_write(files, dirs, local[self].filename, ranges[self],
                      drcov_basic_blocks[self], ok)

PostExecWrite(self, ok) ==
    /\ pc[self] = "write"
    /\ LET out == WriteTrace(self, ok)
       IN /\ files' = out.files
          /\ fs_writes' = IF ok /\ Parent(local[self].filename) \in dirs
                          THEN fs_writes + 1 ELSE fs_writes
          /\ log' = IF out.ok
                    THEN Append(log, [inst |-> self, input |-> local[self].input,
                                      filename |-> local[self].filename])
                    ELSE log
          /\ failed' = IF out.ok THEN failed ELSE failed \cup {self}
          /\ PostExecReturn(self, out)
    /\ appended' = [appended EXCEPT ![self] = <<>>]
    /\ UNCHANGED <<coverage_directory, ranges, stalked_addresses, calls, dirs, lastAdd,
                   replaced, lastInitRanges, lastInitPath, mkdirFailed,
                   lastInitBlocks>>

----------------------------------------------------------------------------
(* Specifications *)

Step(self) ==
    \/ \E rs \in Registries, budget \in 0..Len(coverage_directory[self]) :
          init(self, rs, budget)
    \/ \E input \in Inputs : pre_exec(self, input)
    \/ \E s \in Addrs, r \in Addrs : add_stalked_address(self, s, r)
    \/ \E a \in Addrs : RecordBlock(self, a)
    \/ \E input \in Inputs : PostExecBegin(self, input)
    \/ PostExecProbe(self)
    \/ \E ok \in BOOLEAN : PostExecWrite(self, ok)

\* runtimes in separate threads or processes: any interleaving of their steps
Next == \E self \in Instances : Step(self)

Spec == Init /\ [][Next]_vars

\* the contracted use: one post_exec at a time, nothing else runs during it
NextSeq == \E self \in Instances : InFlight \subseteq {self} /\ Step(self)

SpecSeq == Init /\ [][NextSeq]_vars

\* the environment removes a trace file between two calls
Remove(path) ==
    /\ InFlight = {}
    /\ path \in DOMAIN files
    /\ files' = [p \in DOMAIN files \ {path} |-> files[p]]
    /\ UNCHANGED <<coverage_directory, ranges, drcov_basic_blocks,
                   stalked_addresses, pc, local, result, calls, dirs,
                   fs_writes, log, failed, lastAdd, replaced,
                   lastInitRanges, lastInitPath, mkdirFailed,
                   appended, lastInitBlocks>>

\* one call at a time, in a directory whose files may be removed
NextSeqRm ==
    \/ NextSeq
    \/ \E path \in DOMAIN files : Remove(path)

SpecSeqRm == Init /\ [][NextSeqRm]_vars

----------------------------------------------------------------------------
(* Properties *)

\* a post_exec of instance i returns in this step
PostExecReturns(i) == pc[i] = "write" /\ pc'[i] # "write"

\* the name the j-th trace of fingerprint h gets in directory d when the names
\* are handed out in order: the base name, then _0, _1, ...
ExpectedName(d, h, j) ==
    Join(d, IF j = 1 THEN BaseName(h) ELSE SuffixName(h, j - 2))

\* the successful writes of input x into directory d, in call order
WritesOfInput(d, x) ==
    SelectSeq(log, LAMBDA e : Parent(e.filename) = d /\ e.input = x)

\* the successful writes into directory d of inputs with fingerprint h
WritesOfHash(d, h) ==
    SelectSeq(log, LAMBDA e : Parent(e.filename) = d /\ Hash(e.input) = h)

Fingerprints == {Hash(x) : x \in Inputs}

(* C1: whenever a post_exec call has returned, Ok or Err, the trace buffer  *)
(* of that runtime is empty.                                                *)
C1_BufferEmptyAfterPostExec ==
    \A i \in Instances : result[i] # "None" => drcov_basic_blocks[i] = <<>>

(* C2, as stated: in a sequential run without removals the j-th successful  *)
(* write of one input into a directory is named <fp>.drcov for j = 1 and    *)
(* <fp>_{j-2}.drcov after that.                                             *)
C2_NamesCountedPerInput ==
    \A d \in Paths, x \in Inputs :
        \A j \in 1..Len(WritesOfInput(d, x)) :
            WritesOfInput(d, x)[j].filename = ExpectedName(d, Hash(x), j)

(* C2, amended: in a sequential run without removals, from a directory      *)
(* without trace files, all written names are pairwise distinct, and the    *)
(* j-th successful write among the inputs sharing one fingerprint (the same *)
(* bytes or colliding ones) is named <fp>.drcov for j = 1 and               *)
(* <fp>_{j-2}.drcov after that: the suffix grows with every further write.  *)
C2_NamesCountedPerFingerprint ==
    /\ \A j, k \in 1..Len(log) : j # k => log[j].filename # log[k].filename
    /\ \A d \in Paths, h \in Fingerprints :
          \A j \in 1..Len(WritesOfHash(d, h)) :
              WritesOfHash(d, h)[j].filename = ExpectedName(d, h, j)

\* the same input written three times into one directory: base name, _0, _1
C2_Witness ==
    \E d \in Paths, x \in Inputs :
        /\ Len(WritesOfInput(d, x)) = 3
        /\ WritesOfInput(d, x)[3].filename = Join(d, SuffixName(Hash(x), 1))
        /\ WritesOfInput(d, x)[3].filename \in DOMAIN files

(* C3: for every address never passed as the stalked argument of            *)
(* add_stalked_address on a runtime, its real_address_for_stalked returns   *)
(* the address itself, after any sequence of operations.                    *)
C3_TotalTranslation ==
    \A i \in Instances, a \in Addrs :
        a \notin DOMAIN lastAdd[i] => real_address_for_stalked(i, a) = a

\* another key was mapped (onto a itself), a post_exec has returned, and the
\* never-registered a still translates to a
C3_Witness ==
    \E i \in Instances, a \in Addrs, s \in Addrs :
        /\ a \notin DOMAIN lastAdd[i]
        /\ s \in DOMAIN lastAdd[i] /\ lastAdd[i][s] = a
        /\ result[i] = "Ok"
        /\ real_address_for_stalked(i, a) = a

(* C4: real_address_for_stalked(s) returns the real address of the most     *)
(* recent add_stalked_address(s, r) for the key s.                          *)
C4_TranslationOverwrite ==
    \A i \in Instances :
        \A s \in DOMAIN lastAdd[i] :
            real_address_for_stalked(i, s) = lastAdd[i][s]

\* a key was added with r1 and then with r2 # r1, and resolves to r2
C4_Witness ==
    \E i \in Instances, s \in Addrs :
        /\ <<i, s>> \in replaced
        /\ real_address_for_stalked(i, s) = lastAdd[i][s]

(* C5: when post_exec returns it has returned Ok exactly if the storage     *)
(* took the trace file (and then the file is there), Err otherwise, and the *)
(* runtime is ready for the next execution in both cases.                   *)
C5_WriteFailureSurfaced ==
    [][\A i \in Instances :
          PostExecReturns(i) =>
              /\ pc'[i] = "ready"
              /\ result'[i] \in {"Ok", "Err"}
              /\ result'[i] = "Ok" <=> fs_writes' = fs_writes + 1
              /\ result'[i] = "Ok" => local[i].filename \in DOMAIN files'
              /\ result'[i] = "Err" => files' = files]_vars

\* a post_exec of the runtime failed, and a later one returned Ok
C5_Witness ==
    \E i \in Instances :
        /\ i \in failed
        /\ result[i] = "Ok"
        /\ \E k \in 1..Len(log) : log[k].inst = i

(* C6: a post_exec called with an empty trace buffer that returns Ok has    *)
(* written the selected file, with an empty block list and the module       *)
(* table of the latest init.                                                *)
C6_EmptyTraceWritten ==
    [][\A i \in Instances :
          (PostExecReturns(i) /\ drcov_basic_blocks[i] = <<>> /\ result'[i] = "Ok")
              => /\ local[i].filename # <<>>
                 /\ local[i].filename \in DOMAIN files'
                 /\ files'[local[i].filename] = TraceFile(lastInitRanges[i], <<>>)
                 /\ Len(log') = Len(log) + 1]_vars

\* a trace file with a populated module table and no blocks is on disk
C6_Witness ==
    \E i \in Instances, k \in 1..Len(log) :
        /\ log[k].inst = i
        /\ log[k].filename \in DOMAIN files
        /\ files[log[k].filename].blocks = <<>>
        /\ files[log[k].filename].modules = lastInitRanges[i]
        /\ lastInitRanges[i] # {}

(* C7: the files of the coverage directories change only when a post_exec   *)
(* returns; that call adds at most one name, the one it selected, and it    *)
(* stores exactly one file when it returns Ok.                              *)
C7_OneFilePerPostExec ==
    [][/\ Cardinality(DOMAIN files') <= Cardinality(DOMAIN files) + 1
       /\ files' # files =>
             \E i \in Instances :
                 /\ PostExecReturns(i)
                 /\ DOMAIN files' = DOMAIN files \cup {local[i].filename}
                 /\ \A p \in DOMAIN files \ {local[i].filename} :
                       files'[p] = files[p]
       /\ \A i \in Instances :
             (PostExecReturns(i) /\ result'[i] = "Ok") =>
                 DOMAIN files' = DOMAIN files \cup {local[i].filename}]_vars

\* two post_exec calls have each stored their own file
C7_Witness ==
    /\ fs_writes = 2
    /\ Cardinality(DOMAIN files) = 2
    /\ Len(log) = 2

(* C8: the name a probe selected did not exist when it was checked; it      *)
(* exists when the write starts only if another runtime sharing the         *)
(* directory stored it in between, and two stored traces share a name only  *)
(* if they come from two runtimes sharing the directory.                    *)
C8_RaceOnlyBetweenWriters ==
    /\ \A i \in Instances :
          (pc[i] = "write" /\ local[i].filename \in DOMAIN files) =>
              \E k \in 1..Len(log) :
                  /\ log[k].inst # i
                  /\ log[k].filename = local[i].filename
                  /\ coverage_directory[log[k].inst] = coverage_directory[i]
    /\ \A j, k \in 1..Len(log) :
          (j # k /\ log[j].filename = log[k].filename) =>
              /\ log[j].inst # log[k].inst
              /\ coverage_directory[log[j].inst] = coverage_directory[log[k].inst]

\* both runtimes selected the same name and both writes succeeded: one file
\* is left of two traces
C8_Witness ==
    \E j, k \in 1..Len(log) :
        /\ j < k
        /\ log[j].inst # log[k].inst
        /\ log[j].filename = log[k].filename
        /\ Hash(log[j].input) = Hash(log[k].input)
        /\ fs_writes = 2
        /\ Cardinality(DOMAIN files) = 1

(* C9: when create_dir_all fails in init the runtime panics, and a panicked *)
(* runtime takes no further step: no pre_exec, no block, no post_exec.      *)
C9_InitFailureFatal ==
    [][\A i \in Instances :
          /\ mkdirFailed'[i] => pc'[i] = "panicked"
          /\ pc[i] = "panicked" =>
                /\ pc'[i] = "panicked"
                /\ drcov_basic_blocks'[i] = drcov_basic_blocks[i]
                /\ stalked_addresses'[i] = stalked_addresses[i]
                /\ ranges'[i] = ranges[i]
                /\ result'[i] = result[i]
                /\ local'[i] = local[i]]_vars

\* the directory could not be created and the runtime never got further
C9_Witness ==
    \E i \in Instances :
        /\ mkdirFailed[i]
        /\ pc[i] = "panicked"
        /\ coverage_directory[i] \notin dirs
        /\ \A k \in 1..Len(log) : log[k].inst # i

\* every non-empty prefix of a path is a directory
CreatedWithParents(path) == \A k \in 1..Len(path) : SubSeq(path, 1, k) \in dirs

(* C10, as stated: after the inits the directories exist and a post_exec    *)
(* writes into the most recently initialised path.                          *)
C10_WritesToLastInitialised ==
    /\ \A i \in Instances :
          pc[i] \notin {"new", "panicked"} => CreatedWithParents(coverage_directory[i])
    /\ \A i \in Instances :
          pc[i] = "write" => Parent(local[i].filename) = lastInitPath

(* C10, amended: init takes no path; the directory of a runtime is the one  *)
(* it was constructed with.  After init of two runtimes constructed with    *)
(* different paths both directories exist, and every post_exec writes into  *)
(* the directory of its own runtime, whichever init ran last.               *)
C10_WritesToOwnDirectory ==
    /\ \A i \in Instances :
          pc[i] \notin {"new", "panicked"} => CreatedWithParents(coverage_directory[i])
    /\ \A i \in Instances :
          pc[i] \in {"probe", "write"} =>
              Parent(local[i].filename) = coverage_directory[i]
    /\ \A k \in 1..Len(log) :
          Parent(log[k].filename) = coverage_directory[log[k].inst]

\* two runtimes with different paths were initialised, both directories
\* exist, and the one initialised first has written into its own directory
C10_Witness ==
    \E i, j \in Instances, k \in 1..Len(log) :
        /\ coverage_directory[i] # coverage_directory[j]
        /\ pc[i] = "ready" /\ pc[j] = "ready"
        /\ CreatedWithParents(coverage_directory[i])
        /\ CreatedWithParents(coverage_directory[j])
        /\ lastInitPath = coverage_directory[j]
        /\ log[k].inst = i
        /\ Parent(log[k].filename) = coverage_directory[i]

(* C11: pre_exec is a no-op.  Whatever the input and the state of the     *)
(* runtime, it returns Ok (the driver goes on into the execution) and the   *)
(* registry, the translator map, the trace buffer, the directory path and   *)
(* the filesystem are what they were.                                       *)
C11_PreExecNoOp ==
    [][\A i \in Instances, input \in Inputs :
          pre_exec(i, input) =>
              /\ pc'[i] = "exec"
              /\ ranges' = ranges
              /\ stalked_addresses' = stalked_addresses
              /\ drcov_basic_blocks' = drcov_basic_blocks
              /\ coverage_directory' = coverage_directory
              /\ dirs' = dirs
              /\ files' = files]_vars

\* pre_exec has run on a runtime whose previous post_exec failed and left
\* blocks in the buffer: the step had something to disturb
C11_Witness ==
    \E i \in Instances :
        /\ pc[i] = "exec"
        /\ i \in failed
        /\ drcov_basic_blocks[i] # <<>>
        /\ calls = 3
        /\ ranges[i] # {}

\* the number-th name the probe of post_exec tries for fingerprint h in d
Candidate(d, h, number) ==
    Join(d, IF number = 0 THEN BaseName(h) ELSE SuffixName(h, number - 1))

(* C12: first gap wins.  With one call at a time, the name post_exec       *)
(* selects is <fingerprint>.drcov if that name is unused and otherwise      *)
(* <fingerprint>_n.drcov for the smallest n whose name is unused: when the  *)
(* name is selected it does not exist, while the base name and every        *)
(* candidate below it do, also after files have been removed.               *)
C12_FirstGapWins ==
    \A i \in Instances :
        pc[i] = "write" =>
            LET l == local[i]
                d == coverage_directory[i]
            IN  /\ l.filename = Candidate(d, l.hash, l.i)
                /\ ~Exists(l.filename)
                /\ \A k \in 0..(l.i - 1) : Exists(Candidate(d, l.hash, k))

\* the base name was removed while <fingerprint>_0.drcov stayed: the next
\* post_exec of that fingerprint selects the base name again, not _1
C12_Witness ==
    \E i \in Instances :
        LET l == local[i]
            d == coverage_directory[i]
        IN  /\ pc[i] = "write"
            /\ l.filename = Candidate(d, l.hash, 0)
            /\ Candidate(d, l.hash, 1) \in DOMAIN files

(* C13: every trace file post_exec writes holds the registry of the most   *)
(* recent init followed by exactly the blocks appended since the previous   *)
(* post_exec call of that runtime returned, Ok or Err, in append order; no  *)
(* block of an earlier execution is in a later execution's file.            *)
C13_FileHoldsThisExecution ==
    [][\A i \in Instances :
          (PostExecReturns(i) /\ result'[i] = "Ok") =>
              files'[local[i].filename] =
                  TraceFile(lastInitRanges[i], appended[i])]_vars

(* C14: init replaces the module registry wholesale and is idempotent.     *)
(* After any init the registry is exactly the ranges that init was given,   *)
(* with nothing of an earlier registry retained, and an init given the      *)
(* ranges of the previous init of that runtime leaves every field of the    *)
(* runtime and the filesystem as the first one left them.                   *)
C14_InitReplacesIdempotent ==
    [][\A i \in Instances, rs \in Registries :
        \A budget \in 0..Len(coverage_directory[i]) :
          init(i, rs, budget) =>
              /\ ranges'[i] = rs
              /\ (pc[i] # "new" /\ rs = lastInitRanges[i]) =>
                    /\ ranges' = ranges
                    /\ drcov_basic_blocks' = drcov_basic_blocks
                    /\ stalked_addresses' = stalked_addresses
                    /\ coverage_directory' = coverage_directory
                    /\ pc' = pc
                    /\ dirs' = dirs
                    /\ files' = files]_vars

\* a runtime wrote a trace under one registry and was then initialised with
\* the other one, which is now its registry
C14_Witness ==
    \E i \in Instances, k \in DOMAIN log :
        /\ log[k].inst = i
        /\ \A j \in Instances \ {i} : pc[j] = "new"
        /\ log[k].filename \in DOMAIN files
        /\ files[log[k].filename].modules = RangesB
        /\ ranges[i] = RangesA
        /\ lastInitRanges[i] = RangesA

(* C15: with one call at a time, post_exec never writes to a path that    *)
(* existed when the call started; every file present keeps its content      *)
(* across any sequence of post_exec calls, whatever the inputs, different   *)
(* inputs with equal fingerprints included.                                 *)
C15_ExistingFilesKept ==
    [][/\ \A p \in DOMAIN files : p \in DOMAIN files' /\ files'[p] = files[p]
       /\ \A i \in Instances :
             PostExecReturns(i) => local[i].filename \notin DOMAIN files]_vars

\* two different inputs with the same fingerprint were written into the same
\* directory: both files are there under different names
C15_Witness ==
    \E j \in DOMAIN log, k \in DOMAIN log :
        /\ j < k
        /\ log[j].input # log[k].input
        /\ Hash(log[j].input) = Hash(log[k].input)
        /\ Parent(log[j].filename) = Parent(log[k].filename)
        /\ log[j].filename # log[k].filename
        /\ {log[j].filename, log[k].filename} \subseteq DOMAIN files

(* C16: the translator map is changed only by add_stalked_address.  init,  *)
(* pre_exec and post_exec, returning Ok or Err, leave it as it is, so a     *)
(* translation registered in one execution resolves in every later          *)
(* execution and after a re-init.                                           *)
C16_MapChangedOnlyByAdd ==
    [][\A i \in Instances :
          \/ \E s \in Addrs, r \in Addrs : add_stalked_address(i, s, r)
          \/ /\ stalked_addresses'[i] = stalked_addresses[i]
             /\ \A s \in DOMAIN lastAdd[i] :
                   real_address_for_stalked(i, s)' = lastAdd[i][s]]_vars

\* a translation that is not the identity is still in the map of a runtime
\* that has since written a trace and been initialised with other ranges
C16_Witness ==
    \E i \in Instances, k \in DOMAIN log, s \in Addrs :
        /\ log[k].inst = i
        /\ \A j \in Instances \ {i} : pc[j] = "new"
        /\ log[k].filename \in DOMAIN files
        /\ files[log[k].filename].modules # ranges[i]
        /\ s \in DOMAIN stalked_addresses[i]
        /\ stalked_addresses[i][s] # s
        /\ real_address_for_stalked(i, s) = lastAdd[i][s]

(* C17: init changes the module registry (and creates the directory) and  *)
(* nothing else of the runtime: the blocks in the trace buffer when init is *)
(* called again are kept, the next post_exec writes them, and the           *)
(* configured coverage directory path is what it was.                       *)
C17_InitKeepsBufferAndPath ==
    [][/\ \A i \in Instances, rs \in Registries :
          \A budget \in 0..Len(coverage_directory[i]) :
             init(i, rs, budget) =>
                 /\ drcov_basic_blocks' = drcov_basic_blocks
                 /\ coverage_directory' = coverage_directory
                 /\ stalked_addresses' = stalked_addresses
                 /\ files' = files
                 /\ \A j \in Instances \ {i} : ranges'[j] = ranges[j]
       /\ \A i \in Instances :
             (PostExecReturns(i) /\ result'[i] = "Ok") =>
                 files'[local[i].filename].blocks = drcov_basic_blocks[i]]_vars

\* init found blocks in the buffer, and the post_exec after it has written
\* exactly those blocks under the registry of that init
C17_Witness ==
    \E i \in Instances, k \in DOMAIN log :
        /\ log[k].inst = i
        /\ \A j \in Instances \ {i} : pc[j] = "new"
        /\ lastInitBlocks[i] # <<>>
        /\ drcov_basic_blocks[i] = <<>>
        /\ log[k].filename \in DOMAIN files
        /\ files[log[k].filename] = TraceFile(lastInitRanges[i], lastInitBlocks[i])

\* the files of directory d whose name carries fingerprint h
FilesOfFingerprint(d, h) ==
    {p \in DOMAIN files :
        \E number \in 0..(MaxCalls + 1) : p = Candidate(d, h, number)}

(* C18: the filename probe of post_exec terminates when nobody else adds   *)
(* files.  With N files in the directory that carry the fingerprint of the  *)
(* input, at most N existence checks find a name taken, so at most N + 1    *)
(* checks are made before a name is selected and the write attempted.       *)
C18_ProbeBounded ==
    \A i \in Instances :
        LET l == local[i]
            N == Cardinality(FilesOfFingerprint(coverage_directory[i], l.hash))
        IN  /\ pc[i] = "probe" => l.i <= N
            /\ pc[i] = "write" => l.i + 1 <= N + 1

\* two files carry the fingerprint and the probe has selected the third name
\* after three existence checks
C18_Witness ==
    \E i \in Instances :
        /\ pc[i] = "write"
        /\ local[i].i = 2
        /\ Cardinality(FilesOfFingerprint(coverage_directory[i], local[i].hash)) = 2

====
